---- MODULE Spec2Model ----
(***************************************************************************)
(* Model of codeprep's dual-view token sequences (codeprep/tokens.py) and  *)
(* of the staged run of the preprocessing flow (dataprep/cli/stages.py,    *)
(* dataprep/dataset.py).                                                   *)
(*                                                                         *)
(* Python values are modelled as follows.                                  *)
(*   - a string is a sequence of pieces; the end-of-word marker '</t>' is  *)
(*     the two pieces "</" and "t>", so that a marker split over two       *)
(*     sub-tokens is representable;                                        *)
(*   - a list is a sequence (1-based here, 0-based in the source: every    *)
(*     index that is program data is kept 0-based);                        *)
(*   - an Optional[int], and the outcome of an index conversion, is a      *)
(*     record [t, v]: t = "int", "none", or the name of the exception      *)
(*     raised;                                                             *)
(*   - a view, a carrier or a raised exception is a record with a field    *)
(*     kind: "sub", "full", "surrogate" or "error".                        *)
(***************************************************************************)
EXTENDS Integers, Sequences, FiniteSets, TLC

VARIABLES
    arg,    \* the operands of the call under study (pure-function specifications)
    ret,    \* what that call returned or raised
    heap,   \* the objects: views, token lists and metadata objects, by identity
    last,   \* the last operation applied to the heap, with the heap before it
    iter,   \* an alignment iterator: its fields and what it has yielded so far
    pc,     \* position of run_until_vocab
    fs,     \* the file system the stages look at
    log     \* what run_until_vocab has done so far, in order

vars == <<arg, ret, heap, last, iter, pc, fs, log>>

(***************************************************************************)
(* Bounds of the model.                                                    *)
(***************************************************************************)
MaxTokens == 3      \* sub-tokens of a constructed sequence
MaxCount == 2       \* sub-tokens per full token of a constructed sequence
IdxSlack == 2       \* how far beyond [-len, len] a slice bound may lie

(***************************************************************************)
(* Python values.                                                          *)
(***************************************************************************)
None == [t |-> "none", v |-> 0]
Int_(i) == [t |-> "int", v |-> i]
Raised(e, i) == [t |-> e, v |-> i]

Min(a, b) == IF a < b THEN a ELSE b
Max(a, b) == IF a > b THEN a ELSE b

RECURSIVE Sum(_)
Sum(l) == IF l = <<>> THEN 0 ELSE l[1] + Sum(Tail(l))

\* codeprep.util.misc.cum_sum: the running totals of a list
RECURSIVE cum_sum(_)
cum_sum(l) ==
    IF l = <<>> THEN <<>>
    ELSE LET r == cum_sum(SubSeq(l, 1, Len(l) - 1))
         IN  Append(r, (IF r = <<>> THEN 0 ELSE r[Len(r)]) + l[Len(l)])

\* "".join(l)
RECURSIVE Join(_)
Join(l) == IF l = <<>> THEN <<>> ELSE l[1] \o Join(Tail(l))

\* str.endswith
EndsWith(s, suffix) ==
    /\ Len(s) >= Len(suffix)
    /\ SubSeq(s, Len(s) - Len(suffix) + 1, Len(s)) = suffix

\* a slice bound of a list of length n, as list.__getitem__ resolves it
SliceBound(n, b, dflt) ==
    IF b.t = "none" THEN dflt
    ELSE IF b.v < 0 THEN Max(n + b.v, 0)
    ELSE Min(b.v, n)

\* l[start:stop] for a list l, step 1 or None
PySlice(l, start, stop) ==
    LET lo == SliceBound(Len(l), start, 0)
        hi == SliceBound(Len(l), stop, Len(l))
    IN  SubSeq(l, lo + 1, hi)

(***************************************************************************)
(* The end-of-word marker and the strings the model draws tokens from.     *)
(***************************************************************************)
Marker == <<"</", "t>">>

TokPlain == <<"h">>                 \* 'h'
TokEnd == <<"h", "</", "t>">>       \* 'h</t>'
TokOpen == <<"</">>                 \* '</', the first half of the marker
TokClose == <<"t>">>                \* 't>', the second half of the marker

TokenTypes == {"A", "B"}

is_terminal_subtoken(subtoken) == EndsWith(subtoken, Marker)

(***************************************************************************)
(* _FullOverSubTokenIterator and _SubOverFullTokenIterator.                *)
(* An iterator is a record [over, counts, formatter, current_full_word,    *)
(* current_index]; counts is metadata.n_subtokens_per_token.               *)
(***************************************************************************)
Formatters == {"id", "join"}

\* formatter(group): lambda x: x, or lambda l: "".join(l)
Format(formatter, group) == IF formatter = "join" THEN Join(group) ELSE group

NewIterator(over, counts, formatter) ==
    [formatter |-> formatter, over |-> over, counts |-> counts, current_full_word |-> 0,
     current_index |-> 0]

FullOverSubStops(it) == it.current_full_word >= Len(it.counts)

\* the value one __next__ of _FullOverSubTokenIterator returns
FullOverSubValue(it) ==
    LET n == it.counts[it.current_full_word + 1]
    IN  Format(it.formatter,
               PySlice(it.over, Int_(it.current_index), Int_(it.current_index + n)))

\* an advance that moves the cursor by one element instead of one group
FullOverSubAdvanceByOne(it) ==
    [it EXCEPT !.current_full_word = @ + 1, !.current_index = @ + 1]

\* the iterator after that __next__
FullOverSubAdvance(it) ==
    [it EXCEPT !.current_full_word = @ + 1,
               !.current_index = @ + it.counts[it.current_full_word + 1]]

\* every value the iterator yields until StopIteration, in order
RECURSIVE FullOverSubRun(_)
FullOverSubRun(it) ==
    IF FullOverSubStops(it) THEN <<>>
    ELSE <<FullOverSubValue(it)>> \o FullOverSubRun(FullOverSubAdvance(it))

SubOverFullStops(it) == it.current_full_word >= Len(it.over)

\* n_subtokens_per_token[current_full_word] raises IndexError past the list
SubOverFullRaises(it) ==
    /\ ~SubOverFullStops(it)
    /\ it.current_full_word >= Len(it.counts)

SubOverFullValue(it) == it.over[it.current_full_word + 1]

\* an advance that compares with > instead of >=
SubOverFullAdvanceLate(it) ==
    IF it.current_index + 1 > it.counts[it.current_full_word + 1]
    THEN [it EXCEPT !.current_index = 0, !.current_full_word = @ + 1]
    ELSE [it EXCEPT !.current_index = @ + 1]

SubOverFullAdvance(it) ==
    IF it.current_index + 1 >= it.counts[it.current_full_word + 1]
    THEN [it EXCEPT !.current_index = 0, !.current_full_word = @ + 1]
    ELSE [it EXCEPT !.current_index = @ + 1]

(***************************************************************************)
(* PreppedTokenSequence.__post_init__                                      *)
(***************************************************************************)
\* a raised exception: its type, the token its message names, the numbers it reports
Error(e, token, nums) == [token |-> token, nums |-> nums, kind |-> "error", err |-> e]

\* a length check that only notices missing sub-tokens
out_of_sync_only_short(tokens, counts) == Len(tokens) < Sum(counts)

out_of_sync(tokens, counts) == Len(tokens) # Sum(counts)

\* the full tokens the marker check walks over, in order
JoinedFullTokens(tokens, counts) ==
    FullOverSubRun(NewIterator(tokens, counts, "join"))

\* [0] + list(cum_sum(n_subtokens_per_token))
FullToSubTable(counts) == <<0>> \o cum_sum(counts)

\* {n: i for i, n in enumerate(full_to_sub)}: the last i wins
SubToFullTable(f2s) ==
    [n \in {f2s[i] : i \in DOMAIN f2s} |->
        (CHOOSE i \in DOMAIN f2s :
            /\ f2s[i] = n
            /\ \A j \in DOMAIN f2s : f2s[j] = n => j <= i) - 1]

View(kind, tokens, counts, types, flag, f2s, s2f) ==
    [counts |-> counts, kind |-> kind, tokens |-> tokens, types |-> types,
     word_end_token_added |-> flag, full_to_sub |-> f2s, sub_to_full |-> s2f]

\* the constructed view, or the exception the constructor raises
PostInit(kind, tokens, counts, types, flag) ==
    LET full == JoinedFullTokens(tokens, counts)
        bad == {i \in DOMAIN full : ~is_terminal_subtoken(full[i])}
    IN  IF out_of_sync(tokens, counts)
        THEN Error("ValueError", <<>>, <<Len(tokens), Sum(counts)>>)
        ELSE IF flag /\ bad # {}
        THEN Error("AssertionError",
                   full[CHOOSE i \in bad : \A j \in bad : i <= j], <<>>)
        ELSE View(kind, tokens, counts, types, flag,
                  FullToSubTable(counts), SubToFullTable(FullToSubTable(counts)))

(***************************************************************************)
(* Index translation: __len__, _convert_index, _full_to_sub_index,         *)
(* _sub_to_full_index.                                                     *)
(***************************************************************************)
\* len(self): a full view looks its length up in the derived table
__len__(self) ==
    IF self.kind = "full"
    THEN IF Len(self.tokens) \in DOMAIN self.sub_to_full
         THEN Int_(self.sub_to_full[Len(self.tokens)])
         ELSE Raised("KeyError", Len(self.tokens))
    ELSE Int_(Len(self.tokens))

\* the two conversion functions, applied to an index 0 <= index
conversion_func(self, func, index) ==
    IF func = "full_to_sub"
    THEN IF index < Len(self.full_to_sub)
         THEN Int_(self.full_to_sub[index + 1])
         ELSE Raised("IndexError", index)
    ELSE IF index \in DOMAIN self.sub_to_full
         THEN Int_(self.sub_to_full[index])
         ELSE Raised("KeyError", index)

RECURSIVE _convert_index(_, _, _)

\* index normalization without the clamp of an index beyond the length
_convert_index_no_upper_clamp(self, index, func) ==
    IF index.t = "none" THEN None
    ELSE LET n_full_tokens == __len__(self)
         IN  IF n_full_tokens.t # "int" THEN n_full_tokens
             ELSE IF index.v < - n_full_tokens.v
             THEN LET r == conversion_func(self, func, n_full_tokens.v)
                  IN  IF r.t = "int" THEN Int_(- r.v - 1) ELSE r
             ELSE IF index.v < 0
             THEN _convert_index(self, Int_(n_full_tokens.v + index.v), func)
             ELSE conversion_func(self, func, index.v)

_convert_index(self, index, func) ==
    IF index.t = "none" THEN None
    ELSE LET n_full_tokens == __len__(self)
         IN  IF n_full_tokens.t # "int" THEN n_full_tokens
             ELSE IF index.v < - n_full_tokens.v
             THEN LET r == _convert_index(self, Int_(n_full_tokens.v + 1), func)
                  IN  IF r.t = "int" THEN Int_(- r.v - 1) ELSE r
             ELSE IF index.v < 0
             THEN _convert_index(self, Int_(n_full_tokens.v + index.v), func)
             ELSE IF index.v > n_full_tokens.v
             THEN _convert_index(self, Int_(n_full_tokens.v), func)
             ELSE conversion_func(self, func, index.v)

_full_to_sub_index(self, index) == _convert_index(self, index, "full_to_sub")

_sub_to_full_index(self, index) == _convert_index(self, index, "sub_to_full")

(***************************************************************************)
(* __getitem__ of the two views.  An item is a slice [start, stop, step]   *)
(* or an integer, which the code turns into slice(item, item + 1, 1)       *)
(* without looking at the step.                                            *)
(***************************************************************************)
Slice(start, stop, step) ==
    [start |-> start, stop |-> stop, step |-> step, isslice |-> TRUE]

IntItem(i) ==
    [start |-> Int_(i), stop |-> Int_(i + 1), step |-> Int_(1), isslice |-> FALSE]

Surrogate(tokens) == [kind |-> "surrogate", tokens |-> tokens]

IsRaised(r) == r.t \notin {"int", "none"}

\* raise NotImplemented(...): NotImplemented is not callable, a TypeError
StepRejected(item) == item.isslice /\ item.step.t # "none"

\* PreppedSubTokenSequence.__getitem__
SubGetItem(self, item) ==
    IF StepRejected(item) THEN Error("TypeError", <<>>, <<>>)
    ELSE LET fstart == _sub_to_full_index(self, item.start)
             fstop == _sub_to_full_index(self, item.stop)
         IN  IF fstart.t = "KeyError" \/ fstop.t = "KeyError"
             THEN Surrogate(PySlice(self.tokens, item.start, item.stop))
             ELSE PostInit("sub",
                           PySlice(self.tokens, item.start, item.stop),
                           PySlice(self.counts, fstart, fstop),
                           PySlice(self.types, fstart, fstop),
                           self.word_end_token_added)

\* a full-view slice that cuts the tokens at the full-token indices themselves
FullGetItemUntranslated(self, item) ==
    IF StepRejected(item) THEN Error("TypeError", <<>>, <<>>)
    ELSE PostInit("full",
                  PySlice(self.tokens, item.start, item.stop),
                  PySlice(self.counts, item.start, item.stop),
                  PySlice(self.types, item.start, item.stop),
                  self.word_end_token_added)

\* PreppedFullTokenSequence.__getitem__
FullGetItem(self, item) ==
    IF StepRejected(item) THEN Error("TypeError", <<>>, <<>>)
    ELSE LET sstart == _full_to_sub_index(self, item.start)
             sstop == _full_to_sub_index(self, item.stop)
         IN  IF IsRaised(sstart) THEN Error(sstart.t, <<>>, <<sstart.v>>)
             ELSE IF IsRaised(sstop) THEN Error(sstop.t, <<>>, <<sstop.v>>)
             ELSE PostInit("full",
                           PySlice(self.tokens, sstart, sstop),
                           PySlice(self.counts, item.start, item.stop),
                           PySlice(self.types, item.start, item.stop),
                           self.word_end_token_added)

__getitem__(self, item) ==
    IF self.kind = "full" THEN FullGetItem(self, item) ELSE SubGetItem(self, item)

(***************************************************************************)
(* Input domains.                                                          *)
(***************************************************************************)
SeqsUpTo(S, n) == UNION {[1..k -> S] : k \in 0..n}

Kinds == {"sub", "full"}

\* what a caller may hand to the constructor: any tokens, any metadata
ConstructInputs(alphabet, maxTokens) ==
    UNION {
        {[counts |-> c, kind |-> k, tokens |-> t, types |-> ty, flag |-> f] :
            k \in Kinds, t \in SeqsUpTo(alphabet, maxTokens),
            ty \in [1..Len(c) -> TokenTypes], f \in BOOLEAN}
        : c \in SeqsUpTo(1..MaxCount, maxTokens)}

Construct(in) == PostInit(in.kind, in.tokens, in.counts, in.types, in.flag)

\* the views construction accepts
ValidViews(alphabet, maxTokens) ==
    {v \in {Construct(in) : in \in ConstructInputs(alphabet, maxTokens)} :
        v.kind # "error"}

\* the integers a slice bound or an index is drawn from
IndexRange(k) == -k..k

\* slice bounds: unspecified, or an integer
SliceBounds(k) == {None} \cup {Int_(i) : i \in IndexRange(k)}

Idle == [kind |-> "none"]

(***************************************************************************)
(* SpecConstruct: one construction from arbitrary operands.                *)
(***************************************************************************)
InitConstruct ==
    /\ arg \in ConstructInputs({TokPlain, TokEnd, TokOpen, TokClose}, MaxTokens)
    /\ ret = Idle
    /\ heap = Idle /\ last = Idle /\ iter = Idle
    /\ pc = "idle" /\ fs = Idle /\ log = <<>>

DoConstruct ==
    /\ ret = Idle
    /\ ret' = Construct(arg)
    /\ UNCHANGED <<arg, heap, last, iter, pc, fs, log>>

SpecConstruct == InitConstruct /\ [][DoConstruct]_vars

(***************************************************************************)
(* SpecSlice: __getitem__ applied to a constructed view.                   *)
(***************************************************************************)
InitSlice ==
    /\ arg \in {[self |-> v, item |-> Idle] : v \in ValidViews({TokPlain, TokEnd}, MaxTokens)}
    /\ ret = Idle
    /\ heap = Idle /\ last = Idle /\ iter = Idle
    /\ pc = "idle" /\ fs = Idle /\ log = <<>>

GetItem(item) ==
    /\ ret = Idle
    /\ arg' = [arg EXCEPT !.item = item]
    /\ ret' = __getitem__(arg.self, item)
    /\ UNCHANGED <<heap, last, iter, pc, fs, log>>

GetSlice ==
    \E start \in SliceBounds(MaxTokens + IdxSlack), stop \in SliceBounds(MaxTokens + IdxSlack) :
        GetItem(Slice(start, stop, None))

GetSliceStep == \E step \in {1, 2} : GetItem(Slice(None, None, Int_(step)))

GetIndex == \E i \in IndexRange(MaxTokens + IdxSlack) : GetItem(IntItem(i))

NextSlice == GetSlice \/ GetSliceStep \/ GetIndex

SpecSlice == InitSlice /\ [][NextSlice]_vars

(***************************************************************************)
(* The heap.  Python objects have identity: heap.views holds the view and  *)
(* carrier objects, heap.lists the token lists and heap.metas the          *)
(* PreppedTokenMetadata objects; a view object refers to its list and its  *)
(* metadata by their positions there, so that two views may share them.    *)
(* The derived tables are attributes of the view object itself.            *)
(***************************************************************************)
MaxObjects == 3     \* view and carrier objects alive at once
MaxOps == 2         \* operations applied in one behaviour

NotAView == 0       \* in place of an object: an operand that is a str

\* that operand as a value
Str == [kind |-> "str"]

ViewObject(kind, tokens, meta, flag, f2s, s2f) ==
    [kind |-> kind, tokens |-> tokens, word_end_token_added |-> flag,
     full_to_sub |-> f2s, sub_to_full |-> s2f, meta |-> meta]

EmptyHeap == [views |-> <<>>, lists |-> <<>>, metas |-> <<>>, origin |-> <<>>]

IsView(h, id) == id # NotAView /\ h.views[id].kind \in Kinds

IsSurrogate(h, id) == id # NotAView /\ h.views[id].kind = "surrogate"

\* the object as a value: its list and metadata looked up
Resolve(h, id) ==
    LET o == h.views[id]
    IN  IF o.kind = "surrogate" THEN Surrogate(h.lists[o.tokens])
        ELSE View(o.kind, h.lists[o.tokens], h.metas[o.meta].counts,
                  h.metas[o.meta].types, o.word_end_token_added,
                  o.full_to_sub, o.sub_to_full)

\* an operand as a value
Operand(h, id) == IF id = NotAView THEN Str ELSE Resolve(h, id)

\* a new object over a new list and (unless a carrier) a new metadata object;
\* origin records the object it was obtained from, NotAView if from none
Allocate(h, v, from) ==
    IF v.kind = "surrogate"
    THEN [h EXCEPT !.views = Append(@, ViewObject("surrogate", Len(h.lists) + 1, 0,
                                                  FALSE, <<>>, <<>>)),
                   !.lists = Append(@, v.tokens),
                   !.origin = Append(@, from)]
    ELSE [views |-> Append(h.views,
                        ViewObject(v.kind, Len(h.lists) + 1, Len(h.metas) + 1,
                                   v.word_end_token_added, v.full_to_sub, v.sub_to_full)),
          lists |-> Append(h.lists, v.tokens),
          metas |-> Append(h.metas, [counts |-> v.counts, types |-> v.types]),
          origin |-> Append(h.origin, from)]

\* PreppedTokenMetadata.update_: both arrays of the other are appended
update_(meta, other) ==
    [counts |-> meta.counts \o other.counts, types |-> meta.types \o other.types]

\* PreppedTokenSequence.add on an object nothing else refers to: tokens and
\* metadata grow, the derived tables stay as they are
Extended(v, other) ==
    [v EXCEPT !.tokens = @ \o other.tokens,
              !.counts = @ \o other.counts,
              !.types = @ \o other.types]

\* self[key] = value that keeps the old full token at key after value
SetItemResultInsert(self, key, value) ==
    IF value.kind # "full" THEN Error("TypeError", <<>>, <<>>)
    ELSE LET prefix == FullGetItem(self, Slice(None, Int_(key), None))
             suffix == FullGetItem(self, Slice(Int_(key), None, None))
         IN  IF prefix.kind = "error" THEN prefix
             ELSE IF suffix.kind = "error" THEN suffix
             ELSE Extended(Extended(prefix, value), suffix)

\* what self[key] = value leaves as the attributes of self, or what it raises;
\* value is a view, a carrier or a str, as a value
SetItemResult(self, key, value) ==
    IF value.kind # "full" THEN Error("TypeError", <<>>, <<>>)
    ELSE LET prefix == FullGetItem(self, Slice(None, Int_(key), None))
             suffix == FullGetItem(self, Slice(Int_(key + 1), None, None))
         IN  IF prefix.kind = "error" THEN prefix
             ELSE IF suffix.kind = "error" THEN suffix
             ELSE Extended(Extended(prefix, value), suffix)

(***************************************************************************)
(* Operations on the heap.  `last` records the operation, its operands,    *)
(* its outcome and the heap it was applied to.                             *)
(***************************************************************************)
Did(op, self, other, key, res, err) ==
    [n |-> last.n + 1, err |-> err, self |-> self, other |-> other, key |-> key,
     op |-> op, res |-> res, before |-> heap]

Objects == 1..Len(heap.views)

MayAct == last.n < MaxOps

HasRoom == Len(heap.views) < MaxObjects

\* the outcome of an operation that returns a new object or raises
ReturnNew(op, self, other, key, r) ==
    IF r.kind = "error"
    THEN /\ heap' = heap
         /\ last' = Did(op, self, other, key, 0, r.err)
    ELSE /\ heap' = Allocate(heap, r, IF op = "getitem" THEN self ELSE NotAView)
         /\ last' = Did(op, self, other, key, Len(heap.views) + 1, "")

\* a caller constructs a view of its own
NewView ==
    /\ MayAct /\ HasRoom
    /\ \E in \in ConstructInputs({TokPlain, TokEnd}, 1) :
            ReturnNew("construct", 0, 0, 0, Construct(in))
    /\ UNCHANGED <<arg, ret, iter, pc, fs, log>>

\* full_tokens_view() / sub_token_view(): a view over the same list and the
\* same metadata object
ViewOver(i, kind) ==
    /\ MayAct /\ HasRoom /\ IsView(heap, i)
    /\ LET self == Resolve(heap, i)
           r == PostInit(kind, self.tokens, self.counts, self.types,
                         self.word_end_token_added)
       IN  IF r.kind = "error"
           THEN /\ heap' = heap
                /\ last' = Did(kind, i, 0, 0, 0, r.err)
           ELSE /\ heap' = [heap EXCEPT !.views =
                                Append(@, ViewObject(kind, heap.views[i].tokens,
                                                     heap.views[i].meta,
                                                     r.word_end_token_added,
                                                     r.full_to_sub, r.sub_to_full)),
                                         !.origin = Append(@, i)]
                /\ last' = Did(kind, i, 0, 0, Len(heap.views) + 1, "")
    /\ UNCHANGED <<arg, ret, iter, pc, fs, log>>

full_tokens_view == \E i \in Objects : ViewOver(i, "full")

sub_token_view == \E i \in Objects : ViewOver(i, "sub")

\* the slices the heap operations take: [:k], [k:] and [k:k+1]
HeapSlices(n) ==
    UNION {{Slice(None, Int_(k), None), Slice(Int_(k), None, None),
            Slice(Int_(k), Int_(k + 1), None)} : k \in 0..n}

\* view[start:stop]
SliceView ==
    /\ MayAct /\ HasRoom
    /\ \E i \in Objects, item \in HeapSlices(MaxTokens) :
        /\ IsView(heap, i)
        /\ ReturnNew("getitem", i, 0, 0, __getitem__(Resolve(heap, i), item))
    /\ UNCHANGED <<arg, ret, iter, pc, fs, log>>

\* an in-place concatenation that forgets the metadata of other
AddViewTokensOnly(i, j) ==
    /\ IsView(heap, i) /\ IsView(heap, j)
    /\ heap' = [heap EXCEPT
                    !.lists[heap.views[i].tokens] = @ \o heap.lists[heap.views[j].tokens]]
    /\ last' = Did("add", i, j, 0, i, "")

\* PreppedTokenSequence.add(other), other a view: self grows in place and is returned
AddView(i, j) ==
    /\ IsView(heap, i) /\ IsView(heap, j)
    /\ heap' = [heap EXCEPT
                    !.lists[heap.views[i].tokens] = @ \o heap.lists[heap.views[j].tokens],
                    !.metas[heap.views[i].meta] = update_(@, heap.metas[heap.views[j].meta])]
    /\ last' = Did("add", i, j, 0, i, "")

\* PreppedTokenSequence.add(other), other a carrier: a new carrier
AddCarrier(i, j) ==
    /\ IsView(heap, i) /\ IsSurrogate(heap, j) /\ HasRoom
    /\ ReturnNew("add", i, j, 0,
                 Surrogate(Resolve(heap, i).tokens \o Resolve(heap, j).tokens))

\* PreppedTokenSequence.add(other), other anything else
AddOther(i, j) ==
    /\ IsView(heap, i) /\ j = NotAView
    /\ ReturnNew("add", i, j, 0, Error("TypeError", <<>>, <<>>))

view_add ==
    /\ MayAct
    /\ \E i \in Objects, j \in Objects \cup {NotAView} :
            AddView(i, j) \/ AddCarrier(i, j) \/ AddOther(i, j)
    /\ UNCHANGED <<arg, ret, iter, pc, fs, log>>

\* SurrogatePreppedTokenSequence.add(other)
SurrogateAddResult(self, other) ==
    IF other.kind = "surrogate"
    THEN Surrogate(self.tokens \o other.tokens)
    ELSE Error("TypeError", <<>>, <<>>)

surrogate_add ==
    /\ MayAct
    /\ \E i \in Objects, j \in Objects \cup {NotAView} :
        /\ IsSurrogate(heap, i)
        /\ LET r == SurrogateAddResult(Resolve(heap, i), Operand(heap, j))
           IN  /\ r.kind # "error" => HasRoom
               /\ ReturnNew("add", i, j, 0, r)
    /\ UNCHANGED <<arg, ret, iter, pc, fs, log>>

\* PreppedFullTokenSequence.__setitem__: self.__dict__ becomes that of the
\* spliced sequence, a new list and a new metadata object included
SetItem(i, key, j) ==
    /\ IsView(heap, i) /\ heap.views[i].kind = "full"
    /\ LET r == SetItemResult(Resolve(heap, i), key, Operand(heap, j))
       IN  IF r.kind = "error"
           THEN /\ heap' = heap
                /\ last' = Did("setitem", i, j, key, 0, r.err)
           ELSE /\ heap' = [views |-> [heap.views EXCEPT ![i] =
                                ViewObject(r.kind, Len(heap.lists) + 1, Len(heap.metas) + 1,
                                           r.word_end_token_added,
                                           r.full_to_sub, r.sub_to_full)],
                            lists |-> Append(heap.lists, r.tokens),
                            metas |-> Append(heap.metas,
                                             [counts |-> r.counts, types |-> r.types]),
                            origin |-> heap.origin]
                /\ last' = Did("setitem", i, j, key, i, "")

__setitem__ ==
    /\ MayAct
    /\ \E i \in Objects, j \in Objects \cup {NotAView}, key \in 0..(MaxTokens - 1) :
            SetItem(i, key, j)
    /\ UNCHANGED <<arg, ret, iter, pc, fs, log>>

\* PreppedSubTokenSequence.set_all_tokens_type: the metadata object gets a new
\* token_types list
set_all_tokens_type ==
    /\ MayAct
    /\ \E i \in Objects, t \in TokenTypes :
        /\ IsView(heap, i) /\ heap.views[i].kind = "sub"
        /\ heap' = [heap EXCEPT !.metas[heap.views[i].meta].types =
                        [k \in 1..Len(heap.metas[heap.views[i].meta].counts) |-> t]]
        /\ last' = Did("set_all_tokens_type", i, 0, 0, i, "")
    /\ UNCHANGED <<arg, ret, iter, pc, fs, log>>

\* the token types of a root view: A, B, A, ...
AlternatingTypes(n) == [i \in 1..n |-> IF i % 2 = 1 THEN "A" ELSE "B"]

\* the views a behaviour starts from
Roots(maxTokens) ==
    {v \in ValidViews({TokPlain, TokEnd}, maxTokens) :
        v.types = AlternatingTypes(Len(v.counts))}

NoOp == [n |-> 0, err |-> "", self |-> 0, other |-> 0, key |-> 0, op |-> "init",
         res |-> 0, before |-> EmptyHeap]

Init ==
    /\ heap \in {Allocate(EmptyHeap, v, NotAView) : v \in Roots(MaxTokens)}
    /\ last = NoOp
    /\ arg = Idle /\ ret = Idle /\ iter = Idle
    /\ pc = "idle" /\ fs = Idle /\ log = <<>>

Next ==
    \/ NewView
    \/ full_tokens_view
    \/ sub_token_view
    \/ SliceView
    \/ view_add
    \/ surrogate_add
    \/ __setitem__
    \/ set_all_tokens_type

Spec == Init /\ [][Next]_vars

(***************************************************************************)
(* SpecAssign: one assignment self[key] = value, self a constructed full   *)
(* view and value a view of its own, self itself, or no view at all.       *)
(***************************************************************************)
InitAssign ==
    /\ heap \in {Allocate(Allocate(EmptyHeap, self, NotAView), value, NotAView) :
                    self \in {v \in Roots(MaxTokens) : v.kind = "full"},
                    value \in ValidViews({TokPlain, TokEnd}, MaxCount)}
    /\ last = NoOp
    /\ arg = Idle /\ ret = Idle /\ iter = Idle
    /\ pc = "idle" /\ fs = Idle /\ log = <<>>

Assign ==
    /\ last.n = 0
    /\ \E j \in Objects \cup {NotAView}, key \in IndexRange(MaxTokens) : SetItem(1, key, j)
    /\ UNCHANGED <<arg, ret, iter, pc, fs, log>>

SpecAssign == InitAssign /\ [][Assign]_vars

(***************************************************************************)
(* SpecIter: get_iterator of a view over an external sequence, advanced    *)
(* one __next__ at a time until it stops or raises.                        *)
(***************************************************************************)
MaxOver == 4        \* length of an external sequence

\* PreppedSubTokenSequence.get_iterator / PreppedFullTokenSequence.get_iterator
get_iterator(self, over, over_full_tokens, formatter) ==
    LET class == IF self.kind = "sub"
                 THEN (IF over_full_tokens THEN "_SubOverFullTokenIterator" ELSE "list_iterator")
                 ELSE (IF over_full_tokens THEN "list_iterator" ELSE "_FullOverSubTokenIterator")
    IN  [it |-> NewIterator(over, self.counts, formatter), class |-> class,
         view |-> self.kind, out |-> <<>>, status |-> "running"]

\* a view whose metadata holds the given counts
ViewWithCounts(kind, counts) ==
    PostInit(kind, [i \in 1..Sum(counts) |-> TokPlain], counts,
             [i \in 1..Len(counts) |-> "A"], FALSE)

InitIter ==
    /\ iter \in {get_iterator(ViewWithCounts(k, c), e, b, f) :
                    k \in Kinds, c \in SeqsUpTo(1..MaxCount, MaxTokens),
                    e \in SeqsUpTo({TokPlain, TokEnd}, MaxOver),
                    b \in BOOLEAN, f \in Formatters}
    /\ arg = Idle /\ ret = Idle /\ heap = Idle /\ last = Idle
    /\ pc = "idle" /\ fs = Idle /\ log = <<>>

Yield(value, it) == iter' = [iter EXCEPT !.out = Append(@, value), !.it = it]

Stop(status) == iter' = [iter EXCEPT !.status = status]

\* _SubOverFullTokenIterator.__next__
SubOverFullNext ==
    /\ iter.class = "_SubOverFullTokenIterator" /\ iter.status = "running"
    /\ IF SubOverFullStops(iter.it) THEN Stop("StopIteration")
       ELSE IF SubOverFullRaises(iter.it) THEN Stop("IndexError")
       ELSE Yield(SubOverFullValue(iter.it), SubOverFullAdvance(iter.it))
    /\ UNCHANGED <<arg, ret, heap, last, pc, fs, log>>

\* _FullOverSubTokenIterator.__next__
FullOverSubNext ==
    /\ iter.class = "_FullOverSubTokenIterator" /\ iter.status = "running"
    /\ IF FullOverSubStops(iter.it) THEN Stop("StopIteration")
       ELSE Yield(FullOverSubValue(iter.it), FullOverSubAdvance(iter.it))
    /\ UNCHANGED <<arg, ret, heap, last, pc, fs, log>>

\* iter(over).__next__
ListIteratorNext ==
    /\ iter.class = "list_iterator" /\ iter.status = "running"
    /\ IF iter.it.current_index >= Len(iter.it.over) THEN Stop("StopIteration")
       ELSE Yield(iter.it.over[iter.it.current_index + 1],
                  [iter.it EXCEPT !.current_index = @ + 1])
    /\ UNCHANGED <<arg, ret, heap, last, pc, fs, log>>

NextIter == SubOverFullNext \/ FullOverSubNext \/ ListIteratorNext

SpecIter == InitIter /\ [][NextIter]_vars

(***************************************************************************)
(* SpecStages: run_until_vocab on a dataset.  The file system holds, for   *)
(* the output of each stage, whether its path exists, the content of its   *)
(* .lastmodif file (<<>> when the file is missing) and the path's          *)
(* modification timestamp.                                                 *)
(***************************************************************************)
MaxTime == 2        \* distinct modification timestamps

Stages == <<"parse", "preprocess", "vocab">>

Timestamps(k) == 1..k

Outputs(k) ==
    [exists : BOOLEAN,
     lastmodif : {<<>>} \cup {<<t>> : t \in Timestamps(k)},
     mtime : Timestamps(k)]

\* dataset.is_path_ready
is_path_ready(path) == path.exists /\ path.lastmodif # <<>>

\* dataset.is_path_outdated: "FileNotFoundError" without a .lastmodif file
is_path_outdated(path) ==
    IF path.lastmodif = <<>> THEN "FileNotFoundError"
    ELSE IF path.lastmodif # <<path.mtime>> THEN "outdated" ELSE "current"

\* SubDataset.archive: the path and its .lastmodif file are renamed away
archive(path) == [path EXCEPT !.exists = FALSE, !.lastmodif = <<>>]

\* archive_path, which stages.py imports from dataprep.dataset: the same
\* archiving, of a path that is no SubDataset
archive_path(path) == [path EXCEPT !.exists = FALSE, !.lastmodif = <<>>]

\* the archive step of a stage
ArchiveOutput(stage, path) ==
    IF Stages[stage] = "vocab" THEN archive_path(path) ELSE archive(path)

\* dataset.set_path_ready
set_path_ready(path) == [path EXCEPT !.lastmodif = <<path.mtime>>]

\* parse_projects.run / to_repr.run / vocab.run: the output is written at
\* time t and marked ready
run_job(path, t) == set_path_ready([path EXCEPT !.exists = TRUE, !.mtime = t])

\* where a stage goes after `if not ....ready()`
AfterReadyCheck(ready) == IF ~ready THEN "run" ELSE "is_outdated"

\* an outdated output that is re-run without being archived
AfterOutdatedCheckNoArchive(outdated) ==
    IF outdated = "FileNotFoundError" THEN "raised"
    ELSE IF outdated = "outdated" THEN "run" ELSE "up_to_date"

\* where a stage goes after `elif ....is_outdated()`
AfterOutdatedCheck(outdated) ==
    IF outdated = "FileNotFoundError" THEN "raised"
    ELSE IF outdated = "outdated" THEN "archive" ELSE "up_to_date"

Event(stage, what, path) == [path |-> path, stage |-> stage, what |-> what]

At(stage, step) == [step |-> step, stage |-> stage]

\* the statement after the end of a stage: the next stage, or the return
AfterStage(stage) ==
    IF stage < Len(Stages) THEN At(stage + 1, "ready") ELSE At(stage, "done")

InitStages ==
    /\ fs \in [1..Len(Stages) -> Outputs(MaxTime)]
    /\ pc = At(1, "ready")
    /\ log = <<>>
    /\ arg = Idle /\ ret = Idle /\ heap = Idle /\ last = Idle /\ iter = Idle

\* if not dataset.parsed.ready() / ...preprocessed.ready() / is_path_ready(vocab)
CheckReady(s) ==
    /\ pc = At(s, "ready")
    /\ pc' = At(s, AfterReadyCheck(is_path_ready(fs[s])))
    /\ log' = Append(log, Event(s, "ready?", fs[s]))
    /\ UNCHANGED <<fs, arg, ret, heap, last, iter>>

\* elif ....is_outdated()
CheckOutdated(s) ==
    /\ pc = At(s, "is_outdated")
    /\ pc' = At(s, AfterOutdatedCheck(is_path_outdated(fs[s])))
    /\ log' = Append(log, Event(s, "outdated?", fs[s]))
    /\ UNCHANGED <<fs, arg, ret, heap, last, iter>>

\* ....archive() / archive_path(...)
Archive(s) ==
    /\ pc = At(s, "archive")
    /\ fs' = [fs EXCEPT ![s] = ArchiveOutput(s, @)]
    /\ pc' = At(s, "run")
    /\ log' = Append(log, Event(s, "archive", fs[s]))
    /\ UNCHANGED <<arg, ret, heap, last, iter>>

\* parse_projects.run(dataset) / to_repr.run(...) / vocab.run(dataset)
RunJob(s) ==
    /\ pc = At(s, "run")
    /\ \E t \in Timestamps(MaxTime) : fs' = [fs EXCEPT ![s] = run_job(@, t)]
    /\ pc' = AfterStage(s)
    /\ log' = Append(log, Event(s, "job", fs[s]))
    /\ UNCHANGED <<arg, ret, heap, last, iter>>

\* else: print(... up-to-date)
UpToDate(s) ==
    /\ pc = At(s, "up_to_date")
    /\ pc' = AfterStage(s)
    /\ UNCHANGED <<fs, log, arg, ret, heap, last, iter>>

NextStages ==
    \E s \in 1..Len(Stages) :
        CheckReady(s) \/ CheckOutdated(s) \/ Archive(s) \/ RunJob(s) \/ UpToDate(s)

SpecStages == InitStages /\ [][NextStages]_vars

(***************************************************************************)
(* Closed forms the claims are stated with.                                *)
(***************************************************************************)
\* the sum of the first i counts
PrefixSum(counts, i) == Sum(SubSeq(counts, 1, i))

\* the sub-tokens of full tokens lo+1 .. hi (0-based range [lo, hi))
SubTokensOfRange(tokens, counts, lo, hi) ==
    IF lo >= hi THEN <<>>
    ELSE SubSeq(tokens, PrefixSum(counts, lo) + 1, PrefixSum(counts, hi))

\* the i-th full token (1-based) as the list of its sub-tokens
FullTokenAt(tokens, counts, i) == SubTokensOfRange(tokens, counts, i - 1, i)

\* the sequence of full tokens of a view
FullTokensOf(v) == [i \in 1..Len(v.counts) |-> FullTokenAt(v.tokens, v.counts, i)]

\* the full tokens whose concatenated sub-tokens do not end with the marker
LackingMarker(tokens, counts) ==
    {i \in 1..Len(counts) : ~EndsWith(Join(FullTokenAt(tokens, counts, i)), Marker)}

Least(S) == CHOOSE i \in S : \A j \in S : i <= j

\* the sub-token offsets that are full-token boundaries
Boundaries(counts) == {PrefixSum(counts, i) : i \in 0..Len(counts)}

\* the full-token index of a boundary offset
FullIndexOf(counts, offset) ==
    CHOOSE i \in 0..Len(counts) : PrefixSum(counts, i) = offset

(***************************************************************************)
(* C1: construction is rejected with the length-mismatch error exactly     *)
(* when len(tokens) # sum(subtoken_counts), whatever the marker flag;      *)
(* otherwise with the missing-terminal-marker error, naming the first      *)
(* offending full token, exactly when the flag is set and some full token  *)
(* does not end with the marker; otherwise it succeeds and full_to_sub is  *)
(* [0] followed by the prefix sums of the counts.                          *)
(***************************************************************************)
C1_ConstructionOutcome ==
    ret # Idle =>
        LET lacking == LackingMarker(arg.tokens, arg.counts)
        IN  IF Len(arg.tokens) # Sum(arg.counts)
            THEN /\ ret.kind = "error" /\ ret.err = "ValueError"
                 /\ ret.nums = <<Len(arg.tokens), Sum(arg.counts)>>
            ELSE IF arg.flag /\ lacking # {}
            THEN /\ ret.kind = "error" /\ ret.err = "AssertionError"
                 /\ ret.token = Join(FullTokenAt(arg.tokens, arg.counts, Least(lacking)))
            ELSE /\ ret.kind = arg.kind
                 /\ ret.tokens = arg.tokens /\ ret.counts = arg.counts
                 /\ ret.types = arg.types /\ ret.word_end_token_added = arg.flag
                 /\ ret.full_to_sub =
                        [i \in 1..(Len(arg.counts) + 1) |-> PrefixSum(arg.counts, i - 1)]

\* a marker rejection that names the second full token, the first one being
\* terminated by a marker split over two sub-tokens
C1_Witness ==
    /\ ret # Idle /\ ret.kind = "error" /\ ret.err = "AssertionError"
    /\ Len(arg.counts) = 2 /\ arg.counts[1] = 2
    /\ arg.tokens[1] = TokOpen /\ arg.tokens[2] = TokClose
    /\ ret.token = arg.tokens[3]

(***************************************************************************)
(* C2: a slice [start:stop] without step of a constructed sub-token view   *)
(* is, when both bounds (normalized as list slice bounds) are full-token   *)
(* boundaries, a sub-token view over tokens[start:stop] with the counts    *)
(* and types of the corresponding full-token range and the same marker     *)
(* flag; otherwise it is a carrier holding exactly tokens[start:stop].     *)
(* Nothing else happens, in particular no exception.                       *)
(***************************************************************************)
C2_SubSlice ==
    (ret # Idle /\ arg.self.kind = "sub" /\ arg.item.isslice /\ arg.item.step = None) =>
        LET self == arg.self
            n == Len(self.tokens)
            lo == SliceBound(n, arg.item.start, 0)
            hi == SliceBound(n, arg.item.stop, n)
            cut == IF lo >= hi THEN <<>> ELSE SubSeq(self.tokens, lo + 1, hi)
        IN  IF lo \in Boundaries(self.counts) /\ hi \in Boundaries(self.counts)
            THEN LET flo == FullIndexOf(self.counts, lo)
                     fhi == FullIndexOf(self.counts, hi)
                 IN  /\ ret.kind = "sub"
                     /\ ret.tokens = cut
                     /\ ret.counts = SubSeq(self.counts, flo + 1, fhi)
                     /\ ret.types = SubSeq(self.types, flo + 1, fhi)
                     /\ ret.word_end_token_added = self.word_end_token_added
            ELSE ret = Surrogate(cut)

\* an aligned slice with a negative start that keeps a two-sub-token full token
C2_Witness ==
    /\ ret # Idle /\ arg.self.kind = "sub" /\ arg.item.isslice /\ arg.item.step = None
    /\ arg.self.counts = <<1, 2>>
    /\ arg.item.start = Int_(-2) /\ arg.item.stop = Int_(MaxTokens + IdxSlack)
    /\ ret.kind = "sub" /\ ret.counts = <<2>> /\ Len(ret.tokens) = 2

(***************************************************************************)
(* C3: a slice [start:stop] without step of a constructed full-token view  *)
(* never fails and is a full view whose full tokens, counts and types are  *)
(* the ordinary list slice [start:stop] of the view's full tokens, counts  *)
(* and types, for every bound: negative, out of range or unspecified.      *)
(***************************************************************************)
C3_FullSlice ==
    (ret # Idle /\ arg.self.kind = "full" /\ arg.item.isslice /\ arg.item.step = None) =>
        LET self == arg.self
            n == Len(self.counts)
            lo == SliceBound(n, arg.item.start, 0)
            hi == SliceBound(n, arg.item.stop, n)
        IN  /\ ret.kind = "full"
            /\ ret.counts = SubSeq(self.counts, lo + 1, hi)
            /\ ret.types = SubSeq(self.types, lo + 1, hi)
            /\ ret.tokens = SubTokensOfRange(self.tokens, self.counts, lo, hi)
            /\ FullTokensOf(ret) = SubSeq(FullTokensOf(self), lo + 1, hi)
            /\ ret.word_end_token_added = self.word_end_token_added

\* view[-1:] of a view of two full tokens is its last full token, of two sub-tokens
C3_Witness ==
    /\ ret # Idle /\ arg.self.kind = "full" /\ arg.item.isslice
    /\ arg.self.counts = <<1, 2>>
    /\ arg.item = Slice(Int_(-1), None, None)
    /\ ret.kind = "full" /\ ret.counts = <<2>>
    /\ ret.tokens = SubSeq(arg.self.tokens, 2, 3)

(***************************************************************************)
(* The operands of the last heap operation as they were before it, and     *)
(* what a view holds.                                                      *)
(***************************************************************************)
SelfBefore == Resolve(last.before, last.self)

OtherBefore == Operand(last.before, last.other)

Content(v) == [counts |-> v.counts, tokens |-> v.tokens, types |-> v.types]

\* one of the two objects was obtained from the other by slicing,
\* full_tokens_view() or sub_token_view()
Related(h, a, b) == h.origin[a] = b \/ h.origin[b] = a

(***************************************************************************)
(* C4: no two live views share mutable backing storage: after an in-place  *)
(* concatenation or an assignment on a view, every other view obtained     *)
(* from it (or it from that view) by slicing, full_tokens_view() or        *)
(* sub_token_view() has the tokens, counts and types it had before.        *)
(***************************************************************************)
C4_NoSharedStorage ==
    (last.op \in {"add", "setitem"} /\ last.err = "") =>
        \A k \in 1..Len(last.before.views) :
            (k # last.self /\ IsView(last.before, k) /\ Related(last.before, k, last.self)) =>
                Content(Resolve(heap, k)) = Content(Resolve(last.before, k))

(***************************************************************************)
(* C5: self[key] = value, self a constructed full view of n full tokens,   *)
(* 0 <= key < n, value a full view of one full token: no exception; the    *)
(* sub-tokens, counts, types and full tokens of self are the old ones with *)
(* exactly position key replaced by value's token; self still holds n full *)
(* tokens (counts and types of length n); value is not modified.           *)
(***************************************************************************)
C5_AssignReplaces ==
    (/\ last.op = "setitem"
     /\ OtherBefore.kind = "full" /\ Len(OtherBefore.counts) = 1
     /\ last.key \in 0..(Len(SelfBefore.counts) - 1)) =>
        LET old == SelfBefore
            value == OtherBefore
            new == Resolve(heap, last.self)
            k == last.key
            n == Len(old.counts)
        IN  /\ last.err = ""
            /\ new.kind = "full"
            /\ new.tokens = SubTokensOfRange(old.tokens, old.counts, 0, k)
                                \o value.tokens
                                \o SubTokensOfRange(old.tokens, old.counts, k + 1, n)
            /\ new.counts = [i \in 1..n |-> IF i = k + 1 THEN value.counts[1] ELSE old.counts[i]]
            /\ new.types = [i \in 1..n |-> IF i = k + 1 THEN value.types[1] ELSE old.types[i]]
            /\ FullTokensOf(new) = [i \in 1..n |-> IF i = k + 1 THEN value.tokens
                                                   ELSE FullTokenAt(old.tokens, old.counts, i)]
            /\ new.word_end_token_added = old.word_end_token_added
            /\ Content(Resolve(heap, last.other)) = Content(value)
            /\ last.other # last.self =>
                    /\ heap.views[last.other] = last.before.views[last.other]
                    /\ Resolve(heap, last.other) = value

\* f[1] = g, f of two full tokens (one and two sub-tokens), g of one sub-token
C5_Witness ==
    /\ last.op = "setitem" /\ last.err = "" /\ last.key = 1
    /\ SelfBefore.counts = <<1, 2>>
    /\ OtherBefore.kind = "full" /\ OtherBefore.counts = <<1>>
    /\ last.other # last.self
    /\ SelfBefore.tokens = <<TokPlain, TokPlain, TokPlain>> /\ SelfBefore.types = <<"A", "B">>
    /\ OtherBefore.tokens = <<TokEnd>> /\ OtherBefore.types = <<"A">>
    /\ Resolve(heap, last.self).counts = <<1, 1>>
    /\ Resolve(heap, last.self).types = <<"A", "A">>
    /\ Resolve(heap, last.self).tokens = <<TokPlain, TokEnd>>

(***************************************************************************)
(* C6: self[key] = value on a full view raises TypeError whenever value is *)
(* not a full view of exactly one full token (no view at all, a sub-token  *)
(* view, a full view of no or of two or more full tokens), and then the    *)
(* tokens and metadata of self are what they were.                         *)
(***************************************************************************)
C6_AssignRejects ==
    (last.op = "setitem" /\ ~(OtherBefore.kind = "full" /\ Len(OtherBefore.counts) = 1)) =>
        /\ last.err = "TypeError"
        /\ heap = last.before

(***************************************************************************)
(* C7: carrier.add(other), other a carrier or a sub-token view, raises     *)
(* nothing and returns a new carrier over the carrier's tokens followed by *)
(* other's tokens; no object that existed before is modified.              *)
(***************************************************************************)
C7_CarrierConcatenation ==
    (/\ last.op = "add" /\ IsSurrogate(last.before, last.self)
     /\ OtherBefore.kind \in {"surrogate", "sub"}) =>
        /\ last.err = ""
        /\ last.res = Len(last.before.views) + 1
        /\ Resolve(heap, last.res) = Surrogate(SelfBefore.tokens \o OtherBefore.tokens)
        /\ \A k \in 1..Len(last.before.views) : Resolve(heap, k) = Resolve(last.before, k)

(***************************************************************************)
(* C8: the broadcast iterator of a sub-token view with counts c[0..F-1],   *)
(* given e of length k <= F, yields e[0] c[0] times, ..., e[k-1] c[k-1]    *)
(* times and then stops without an error; for k = F it yields as many      *)
(* values as the view has sub-tokens.                                      *)
(***************************************************************************)
\* the full token (1-based) the j-th sub-token (1-based) belongs to
FullTokenOfSub(counts, j) ==
    CHOOSE i \in 1..Len(counts) : PrefixSum(counts, i - 1) < j /\ j <= PrefixSum(counts, i)

\* e[0] * c[0] + ... + e[k-1] * c[k-1]
Broadcast(e, counts) ==
    [j \in 1..PrefixSum(counts, Len(e)) |-> e[FullTokenOfSub(counts, j)]]

C8_Broadcast ==
    (iter.class = "_SubOverFullTokenIterator" /\ Len(iter.it.over) <= Len(iter.it.counts)) =>
        LET want == Broadcast(iter.it.over, iter.it.counts)
        IN  /\ iter.status # "IndexError"
            /\ Len(iter.out) <= Len(want)
            /\ iter.out = SubSeq(want, 1, Len(iter.out))
            /\ iter.status = "StopIteration" => iter.out = want
            /\ (iter.status = "StopIteration" /\ Len(iter.it.over) = Len(iter.it.counts))
                    => Len(iter.out) = Sum(iter.it.counts)

\* [x, y] broadcast over the counts [1, 2], exhausted
C8_Witness ==
    /\ iter.class = "_SubOverFullTokenIterator" /\ iter.status = "StopIteration"
    /\ iter.it.counts = <<1, 2>> /\ iter.it.over = <<TokPlain, TokEnd>>
    /\ iter.out = <<TokPlain, TokEnd, TokEnd>>

(***************************************************************************)
(* C9: the grouping iterator of a full view with counts c[0..F-1] and      *)
(* prefix sums p, given e of any length, yields exactly F values, the i-th *)
(* being formatter(e[p[i]:p[i+1]]), and raises nothing; when len(e) >=     *)
(* sum(c), group i has c[i] elements and the groups concatenated are       *)
(* e[0:sum(c)].                                                            *)
(***************************************************************************)
\* e[p[i-1]:p[i]] as a list slice, i 1-based
Group(e, counts, i) ==
    SubSeq(e, Min(PrefixSum(counts, i - 1), Len(e)) + 1, Min(PrefixSum(counts, i), Len(e)))

C9_Grouping ==
    iter.class = "_FullOverSubTokenIterator" =>
        LET e == iter.it.over
            c == iter.it.counts
        IN  /\ iter.status \in {"running", "StopIteration"}
            /\ Len(iter.out) <= Len(c)
            /\ \A i \in 1..Len(iter.out) :
                    iter.out[i] = Format(iter.it.formatter, Group(e, c, i))
            /\ iter.status = "StopIteration" => Len(iter.out) = Len(c)
            /\ (iter.status = "StopIteration" /\ iter.it.formatter = "id" /\ Len(e) >= Sum(c)) =>
                    /\ \A i \in 1..Len(c) : Len(iter.out[i]) = c[i]
                    /\ Join(iter.out) = SubSeq(e, 1, Sum(c))

\* an external sequence one short of the sub-token count: the last group is short
C9_Witness ==
    /\ iter.class = "_FullOverSubTokenIterator" /\ iter.status = "StopIteration"
    /\ iter.it.formatter = "id"
    /\ iter.it.counts = <<1, 2>> /\ iter.it.over = <<TokEnd, TokPlain>>
    /\ iter.out = <<(<<TokEnd>>), (<<TokPlain>>)>>

(***************************************************************************)
(* C10: in a run of run_until_vocab the stages are decided in the order    *)
(* parse, preprocess, compute-vocabulary, and for each stage: its job runs *)
(* iff its output is not ready or is outdated; the old output is archived  *)
(* iff it is ready and outdated, and before the job; a ready, up-to-date   *)
(* output is neither archived nor rebuilt; the outdated check is only made *)
(* on a ready output.                                                      *)
(***************************************************************************)
\* the positions of the log where stage s did `what`
EventsOf(s, what) == {i \in DOMAIN log : log[i].stage = s /\ log[i].what = what}

\* stage s has been decided and carried out
StageOver(s) == pc.stage > s \/ pc.step = "done"

\* readiness and staleness of an output, from the files themselves
OutputReady(path) == path.exists /\ path.lastmodif # <<>>
OutputOutdated(path) == path.lastmodif # <<path.mtime>>

C10_StageDecisions ==
    /\ pc.step # "raised"
    /\ \A i, j \in DOMAIN log : i <= j => log[i].stage <= log[j].stage
    /\ \A i \in DOMAIN log : log[i].what = "outdated?" => OutputReady(log[i].path)
    /\ \A s \in 1..Len(Stages) :
        StageOver(s) =>
            /\ Cardinality(EventsOf(s, "ready?")) = 1
            /\ LET seen == log[CHOOSE i \in EventsOf(s, "ready?") : TRUE].path
                   stale == OutputReady(seen) /\ OutputOutdated(seen)
               IN  /\ Cardinality(EventsOf(s, "job")) =
                        (IF ~OutputReady(seen) \/ stale THEN 1 ELSE 0)
                   /\ Cardinality(EventsOf(s, "archive")) = (IF stale THEN 1 ELSE 0)
                   /\ \A a \in EventsOf(s, "archive") :
                        /\ log[a].path = seen
                        /\ \A j \in EventsOf(s, "job") : a < j

\* a finished run that rebuilt the missing parse output, archived and rebuilt the
\* stale preprocessed output and left the up-to-date vocabulary alone
C10_Witness ==
    /\ pc.step = "done"
    /\ EventsOf(1, "job") # {} /\ EventsOf(1, "archive") = {}
    /\ EventsOf(2, "archive") # {} /\ EventsOf(2, "job") # {}
    /\ EventsOf(3, "job") = {} /\ EventsOf(3, "archive") = {}

(***************************************************************************)
(* The derived tables a view would have if they were built from the counts *)
(* it holds now.                                                           *)
(***************************************************************************)
TablesCurrent(v) ==
    /\ v.full_to_sub = FullToSubTable(v.counts)
    /\ v.sub_to_full = SubToFullTable(FullToSubTable(v.counts))

\* the views among the objects of a heap
ViewsOf(h) == {id \in 1..Len(h.views) : IsView(h, id)}

(***************************************************************************)
(* C11: in every reachable state of a view (after construction, slices,    *)
(* in-place concatenations and assignments) full_to_sub is [0] followed by *)
(* the prefix sums of the counts the view holds now and sub_to_full is its *)
(* inverse, so that len() of a full view is the number of its counts.      *)
(***************************************************************************)
C11_DerivedTablesCurrent ==
    \A id \in ViewsOf(heap) :
        LET v == Resolve(heap, id)
        IN  /\ TablesCurrent(v)
            /\ v.kind = "full" => __len__(v) = Int_(Len(v.counts))

(***************************************************************************)
(* C12: every view reachable through construction, full_tokens_view,       *)
(* sub_token_view, slicing, in-place concatenation with a view, assignment *)
(* and set_all_tokens_type holds as many sub-tokens as its counts add up   *)
(* to and as many types as counts; in particular a slice of a full view    *)
(* that returns a view returns one whose counts add up to the number of    *)
(* its sub-tokens.                                                         *)
(***************************************************************************)
Synchronized(v) ==
    /\ Len(v.tokens) = Sum(v.counts)
    /\ Len(v.counts) = Len(v.types)

C12_ViewsSynchronized ==
    /\ \A id \in ViewsOf(heap) : Synchronized(Resolve(heap, id))
    /\ (last.op = "getitem" /\ last.err = "" /\ IsView(heap, last.res)) =>
            Sum(Resolve(heap, last.res).counts) = Len(Resolve(heap, last.res).tokens)

\* g = f[k:] of a full view f, two sub-tokens or more, then f.add(g)
C12_Witness ==
    /\ last.n = 2 /\ last.op = "add" /\ last.err = "" /\ last.res = last.self
    /\ SelfBefore.kind = "full" /\ OtherBefore.kind = "full"
    /\ heap.origin[last.other] = last.self
    /\ heap.views[last.other].tokens # heap.views[last.self].tokens
    /\ Len(OtherBefore.tokens) >= 2 /\ Len(OtherBefore.counts) < Len(OtherBefore.tokens)
    /\ Len(Resolve(heap, last.self).tokens) = Len(SelfBefore.tokens) + Len(OtherBefore.tokens)
    /\ Resolve(heap, last.other) = OtherBefore

(***************************************************************************)
(* C13: in every reachable state of a view, after slicing, in-place        *)
(* concatenation with any other view and assignment, word_end_token_added  *)
(* is set only if the concatenated sub-tokens of every full token of the   *)
(* view end with the end-of-word marker.                                   *)
(***************************************************************************)
C13_MarkerFlagSound ==
    \A id \in ViewsOf(heap) :
        LET v == Resolve(heap, id)
        IN  v.word_end_token_added => LackingMarker(v.tokens, v.counts) = {}

(***************************************************************************)
(* C14: view[i] of a constructed full view of n full tokens, -n <= i < n,  *)
(* is a full view of exactly one full token, the one at position i, a      *)
(* negative i counting from the end (position n + i); view[-1] is the last *)
(* full token.                                                             *)
(***************************************************************************)
C14_IntegerIndex ==
    (/\ ret # Idle /\ arg.self.kind = "full" /\ ~arg.item.isslice
     /\ arg.item.start.v >= - Len(arg.self.counts)
     /\ arg.item.start.v < Len(arg.self.counts)) =>
        LET self == arg.self
            n == Len(self.counts)
            i == arg.item.start.v
            pos == IF i < 0 THEN n + i ELSE i
        IN  /\ ret.kind = "full"
            /\ Len(ret.counts) = 1
            /\ ret.counts = <<self.counts[pos + 1]>>
            /\ ret.types = <<self.types[pos + 1]>>
            /\ ret.tokens = FullTokenAt(self.tokens, self.counts, pos + 1)
====
